---- MODULE Spec2Model ----
\* A model of memcached.cpp: the per-connection session state machine
\* (do_read_header / do_read_body / do_get / do_set / send_response), the
\* shared g_itemCache guarded by g_cacheMutex, and the accepting server.
\*
\* Bytes are naturals 0..255, byte sequences are TLA+ sequences (1-indexed, so
\* the C++ header_[i] is header_[s][i+1] here).  Every session also carries
\* history variables (cur, pend, outq[..].req, lastSet, dirty) that record what
\* the client meant by each frame; they are never read by the server's actions.
\*
\* main runs the io_service on one thread, which runs one handler at a time.
\* The model lets the handlers of different sessions interleave wherever the
\* code takes the mutex (and inside do_set at operator[]), as they would with
\* several threads running the io_service: every single-thread schedule is
\* among its behaviours.  Reads outside a vector are undefined behaviour and
\* are modelled as a choice between a crash of the process and stale bytes.
EXTENDS Integers, Sequences, FiniteSets, TLC

\* ---------------------------------------------------------------- bounds
NumSessions == 2
MaxFrames == 3

\* ---------------------------------------------------------------- constants
header_length == 24
RequestMagic == 128
ResponseMagic == 129
OpGet == 0
OpSet == 1
NoError == 0
KeyNotFound == 1
FlagsLength == 4
\* line 230: argc != 2; line 233: return 1; line 247: return 0
ArgCount == 2
ExitUsage == 1
ExitAfterCatch == 0

Sessions == 1..NumSessions
NotFoundText == <<78, 111, 116, 32, 102, 111, 117, 110, 100>>

\* ---------------------------------------------------------------- inputs
K1 == <<107>>
K2 == <<113>>
F1 == <<1, 2, 3, 4>>
F2 == <<5, 6, 7, 8>>
V1 == <<>>
V2 == <<118>>
Keys == {K1, K2}
FlagValues == {<<F1, V1>>, <<F2, V2>>}
\* What a read past the end of buffer_ may find in memory.
StaleBytes == {0, 107}

Zeros(n) == [i \in 1..n |-> 0]

\* A client's request frame: the 24-byte header of the binary protocol
\* followed by the body.
RequestHeader(magic, opcode, keylen, extras, total) ==
    [i \in 1..header_length |->
        CASE i = 1 -> magic
          [] i = 2 -> opcode
          [] i = 3 -> (keylen \div 256) % 256
          [] i = 4 -> keylen % 256
          [] i = 5 -> extras
          [] i = 9 -> (total \div 16777216) % 256
          [] i = 10 -> (total \div 65536) % 256
          [] i = 11 -> (total \div 256) % 256
          [] i = 12 -> total % 256
          [] OTHER -> 0]

Frame(magic, opcode, keylen, extras, body, kind, key, flags, value) ==
    [bytes |-> RequestHeader(magic, opcode, keylen, extras, Len(body)) \o body,
     kind |-> kind, key |-> key, flags |-> flags, value |-> value,
     keylen |-> keylen, extras |-> extras, body |-> body]

\* SET(K,F,V): extras = the 4 flag bytes, then the key, then the value.
SetFrame(K, F, V) ==
    Frame(RequestMagic, OpSet, Len(K), FlagsLength, F \o K \o V, "SET", K, F, V)
\* GET(K): no extras, the body is the key.
GetFrame(K) ==
    Frame(RequestMagic, OpGet, Len(K), 0, K, "GET", K, <<>>, <<>>)

WellFormed == {SetFrame(K, fv[1], fv[2]) : K \in Keys, fv \in FlagValues}
                \cup {GetFrame(K) : K \in Keys}
\* Headers the header check rejects.
BadHeader ==
    {Frame(ResponseMagic, OpGet, 1, 0, K1, "BADMAGIC", <<>>, <<>>, <<>>),
     Frame(RequestMagic, 2, 1, 0, K1, "BADOPCODE", <<>>, <<>>, <<>>)}
\* Accepted headers whose body is shorter than extras length + key length.
Truncated ==
    {Frame(RequestMagic, OpGet, 1, 0, <<>>, "TRUNCGET", <<>>, <<>>, <<>>),
     Frame(RequestMagic, OpSet, 1, FlagsLength, F1, "TRUNCSET", <<>>, <<>>, <<>>)}
\* SETs whose extras length is not 4 but 0 or 8.
OddSet ==
    {Frame(RequestMagic, OpSet, 1, 0, K1 \o <<9, 8, 7, 6>>, "ODDSET", <<>>, <<>>, <<>>),
     Frame(RequestMagic, OpSet, 1, 8, F1 \o F2 \o K2 \o V2, "ODDSET", <<>>, <<>>, <<>>)}
\* A SET with an empty body: total body length, extras length and key length 0.
ShortSet ==
    {Frame(RequestMagic, OpSet, 0, 0, <<>>, "EMPTYSET", <<>>, <<>>, <<>>)}
\* A GET of the empty key: an accepted header with a total body length of 0.
EmptyGet == {GetFrame(<<>>)}
OddMenu == OddSet \cup {GetFrame(K) : K \in Keys} \cup EmptyGet
ShortMenu == ShortSet \cup {SetFrame(K1, F2, V2)} \cup EmptyGet
MainMenu == WellFormed \cup BadHeader \cup Truncated
\* Argument counts main may be started with.
ArgCounts == {1, 2}

\* What a frame was meant as: request number n of its connection, sent when
\* behind frames of that connection were still unread.
NoReq == [kind |-> "NONE", n |-> 0, behind |-> 0, key |-> <<>>, flags |-> <<>>,
          value |-> <<>>, keylen |-> 0, extras |-> 0, body |-> <<>>]
Intent(f, n, behind) ==
    [kind |-> f.kind, n |-> n, behind |-> behind, key |-> f.key, flags |-> f.flags,
     value |-> f.value, keylen |-> f.keylen, extras |-> f.extras, body |-> f.body]


\* ---------------------------------------------------------------- state
VARIABLES
    g_itemCache,    \* std::map<itemType,itemType>: a function key -> value
    g_cacheMutex,   \* the sessions inside a lock_guard scope (at most one)
    listening,      \* the acceptor has an async_accept outstanding
    crashed,        \* the process has terminated abnormally
    pc,             \* per session: where its running handler is ("io": none runs)
    pending,        \* per session: its outstanding asynchronous operations
    header_,        \* session::header_
    buffer_,        \* session::buffer_
    key_,           \* do_set: the key temporary of line 141
    tempValue,      \* do_set: tempValue
    inq,            \* bytes sent by the peer and not yet read by the session
    outq,           \* frames the session has written, each with its request
    pend,           \* history: what the frames waiting in inq were meant as
    cur,            \* history: what the request being served was meant as
    seen,           \* history: what the GET being served found at its lookup
    lastSet,        \* history: per key, the last SET that was processed
    dirty,          \* history: keys other sessions wrote since this session's last SET began
    nsent,          \* frames sent so far, per session
    menu,           \* the frames the clients of this run may send
    proc            \* the process: main's progress, exit status, what it wrote to cerr

vars == <<g_itemCache, g_cacheMutex, listening, crashed, pc, pending, header_, buffer_,
          key_, tempValue, inq, outq, pend, cur, seen, lastSet, dirty, nsent,
          menu, proc>>

\* The process: where main is, and once it has exited its exit status, what
\* it wrote to cerr, and (history) why it ended.  A process killed by a
\* signal has written nothing and has no exit status of its own.
NotStarted == [state |-> "start", status |-> 0, err |-> "", cause |-> ""]
Exited(status, err, cause) ==
    [state |-> "exited", status |-> status, err |-> err, cause |-> cause]
Killed == [NotStarted EXCEPT !.state = "killed", !.cause = "signal"]

RECURSIVE SumTo(_, _)
SumTo(f, n) == IF n = 0 THEN 0 ELSE f[n] + SumTo(f, n - 1)
TotalSent == SumTo(nsent, NumSessions)

\* An entry of lastSet: the SET last processed for a key (known: it was a
\* well-formed SET(K,F,V), sent as request number by[2] of session by[1]),
\* how many SETs the key has had, and whether any of them was not well-formed.
NoLast == [known |-> FALSE, flags |-> <<>>, value |-> <<>>, by |-> <<0, 0>>,
           count |-> 0, raw |-> FALSE, req |-> NoReq]
\* What a GET found at its lookup: whether its key was in the map and with
\* which value (stored), the last SET of the key, and whether no other
\* session had written the key since this session's last SET.
NoSeen == [inStore |-> FALSE, stored |-> <<>>, last |-> NoLast, clean |-> FALSE]
LastOf(k) == IF k \in DOMAIN lastSet THEN lastSet[k] ELSE NoLast

\* ---------------------------------------------------------------- helpers
\* (variant) the opcode is not looked at
HeaderAcceptedAnyOpcode(h) == h[1] = RequestMagic

\* line 84: the magic byte, plus get or set
HeaderAccepted(h) == h[1] = RequestMagic /\ (h[2] = OpGet \/ h[2] = OpSet)

\* line 94
BodySize(h) == h[9] * 16777216 + h[10] * 65536 + h[11] * 256 + h[12]
\* lines 118, 136
KeySize(h) == h[3] * 256 + h[4]
\* (variant) the key is taken to start after 4 bytes of extras
ExtraLengthFixed(h) == FlagsLength
\* lines 116, 134: header_[4] == extra length
ExtraLength(h) == h[5]

\* line 95: vector::resize keeps the leading elements and zero-fills new ones
Resize(buf, n) == [i \in 1..n |-> IF i <= Len(buf) THEN buf[i] ELSE 0]

\* The values a read of n bytes at offset a (0-based) of buf may give: the
\* bytes of buf where they exist, anything the memory holds past its end.
Reads(buf, a, n) ==
    {[i \in 1..n |-> IF a + i <= Len(buf) THEN buf[a + i] ELSE j[i]] :
        j \in [1..n -> StaleBytes]}

\* What an unsynchronised copy of a value being overwritten may give.
Torn(a, b) ==
    {SubSeq(a, 1, i) \o SubSeq(b, i + 1, Len(b)) : i \in 0..Len(a)}
      \cup {SubSeq(b, 1, i) \o SubSeq(a, i + 1, Len(a)) : i \in 0..Len(b)}

\* (variant) line 160 left out: a miss is answered with an empty body
send_response_no_text(buf, status) ==
    [i \in 1..header_length |->
        CASE i = 1 -> ResponseMagic
          [] i = 5 -> IF status = NoError /\ Len(buf) # 0 THEN 4 ELSE 0
          [] i = 8 -> status
          [] i = 9 -> (Len(buf) \div 16777216) % 256
          [] i = 10 -> (Len(buf) \div 65536) % 256
          [] i = 11 -> (Len(buf) \div 256) % 256
          [] i = 12 -> Len(buf) % 256
          [] OTHER -> 0] \o buf

\* (variant) the extras length follows the status alone
send_response_extras_by_status(buf, status) ==
    LET bodyLength == Len(buf)
        extraLength == IF status = NoError THEN 4 ELSE 0
        body == IF status = KeyNotFound THEN NotFoundText ELSE buf
    IN  [i \in 1..header_length |->
            CASE i = 1 -> ResponseMagic
              [] i = 5 -> extraLength
              [] i = 8 -> status
              [] i = 9 -> (bodyLength \div 16777216) % 256
              [] i = 10 -> (bodyLength \div 65536) % 256
              [] i = 11 -> (bodyLength \div 256) % 256
              [] i = 12 -> bodyLength % 256
              [] OTHER -> 0] \o body

\* lines 153-172: the frame send_response hands to async_write
send_response(buf, status) ==
    LET bodyLength == Len(buf)
        extraLength == IF status = NoError /\ Len(buf) # 0 THEN 4 ELSE 0
        body == IF status = KeyNotFound THEN NotFoundText ELSE buf
    IN  [i \in 1..header_length |->
            CASE i = 1 -> ResponseMagic
              [] i = 5 -> extraLength
              [] i = 8 -> status
              [] i = 9 -> (bodyLength \div 16777216) % 256
              [] i = 10 -> (bodyLength \div 65536) % 256
              [] i = 11 -> (bodyLength \div 256) % 256
              [] i = 12 -> bodyLength % 256
              [] OTHER -> 0] \o body

\* line 126: buffer_.size() ? 0 : 1
GetStatus(buf) == IF Len(buf) # 0 THEN NoError ELSE KeyNotFound

\* lines 119-123: find, then copy or clear
Lookup(cache, key) == IF key \in DOMAIN cache THEN cache[key] ELSE <<>>

\* (variant) the map is replaced by one holding the entry alone
IndexEntryAlone(cache, key) ==
    key :> (IF key \in DOMAIN cache THEN cache[key] ELSE <<>>)
\* (variant) map::insert semantics: an existing value is kept
AssignEntryIfNew(cache, key, val) ==
    IF cache[key] = <<>> THEN [cache EXCEPT ![key] = val] ELSE cache

\* line 141, operator[]: a reference to the entry, default-inserted if absent
IndexEntry(cache, key) ==
    IF key \in DOMAIN cache THEN cache ELSE cache @@ (key :> <<>>)
\* (variant) the value is assigned to a copy of the entry
AssignEntryDropped(cache, key, val) == cache
\* line 141, the move assignment into that entry
AssignEntry(cache, key, val) == [cache EXCEPT ![key] = val]

\* (variant) the flags are not prepended
StoredValueNoFlags(flags, val) == val
\* (variant) the flags are appended instead of prepended
StoredValueFlagsLast(flags, val) == val \o flags

\* lines 139-140: the flags, then everything from valStart to the end
StoredValue(flags, val) == flags \o val

\* (variant) no mutual exclusion
CanLockAlways(s) == TRUE

\* std::lock_guard: the constructor returns once no other thread holds the mutex
CanLock(s) == g_cacheMutex = {}

\* (variant) the guard lives until the response has been written
UnlockAfterWrite(s) == g_cacheMutex

\* lines 124 and 142: the lock_guard's scope ends before send_response
Unlock(s) == g_cacheMutex \ {s}

\* (variant) the lookup is made with operator[]
FindEntryIndexing(cache, key) ==
    IF key \in DOMAIN cache THEN cache ELSE cache @@ (key :> <<>>)

\* line 119: the map after find (find inserts nothing)
FindEntry(cache, key) == cache


\* ---------------------------------------------------------------- initial state
\* main has been entered: the globals are constructed (the map is empty),
\* no server object exists yet.  Start(m) is that state for a run whose
\* clients send the frames of m.
Start(m) ==
    /\ g_itemCache = <<>>
    /\ g_cacheMutex = {}
    /\ listening = FALSE
    /\ crashed = FALSE
    /\ pc = [s \in Sessions |-> "none"]
    /\ pending = [s \in Sessions |-> {}]
    /\ header_ = [s \in Sessions |-> <<>>]
    /\ buffer_ = [s \in Sessions |-> <<>>]
    /\ key_ = [s \in Sessions |-> <<>>]
    /\ tempValue = [s \in Sessions |-> <<>>]
    /\ inq = [s \in Sessions |-> <<>>]
    /\ outq = [s \in Sessions |-> <<>>]
    /\ pend = [s \in Sessions |-> <<>>]
    /\ cur = [s \in Sessions |-> NoReq]
    /\ seen = [s \in Sessions |-> NoSeen]
    /\ lastSet = <<>>
    /\ dirty = [s \in Sessions |-> {}]
    /\ nsent = [s \in Sessions |-> 0]
    /\ menu = m
    /\ proc = NotStarted

Init == Start(MainMenu)

\* ---------------------------------------------------------------- effects
\* (variant) an operation that ends a session ends every session
ReturnEndsAll(s, op, started) ==
    LET left == (pending[s] \ {op}) \cup started
    IN  IF left = {}
        THEN /\ pending' = [t \in Sessions |-> {}]
             /\ pc' = [t \in Sessions |-> "closed"]
             /\ header_' = [t \in Sessions |-> <<>>]
             /\ buffer_' = [t \in Sessions |-> <<>>]
             /\ inq' = [t \in Sessions |-> <<>>]
             /\ pend' = [t \in Sessions |-> <<>>]
        ELSE /\ pending' = [pending EXCEPT ![s] = left]
             /\ pc' = [pc EXCEPT ![s] = "io"]
             /\ UNCHANGED <<header_, buffer_, inq, pend>>

\* A handler of session s returns, having completed the operation op and
\* started the operations in started.  With no operation left outstanding the
\* last shared_ptr to the session goes: the session and its socket are
\* destroyed, and with the socket whatever the peer had sent and was not read.
Return(s, op, started) ==
    LET left == (pending[s] \ {op}) \cup started
    IN  /\ pending' = [pending EXCEPT ![s] = left]
        /\ IF left = {}
           THEN /\ pc' = [pc EXCEPT ![s] = "closed"]
                /\ header_' = [header_ EXCEPT ![s] = <<>>]
                /\ buffer_' = [buffer_ EXCEPT ![s] = <<>>]
                /\ inq' = [inq EXCEPT ![s] = <<>>]
                /\ pend' = [pend EXCEPT ![s] = <<>>]
           ELSE /\ pc' = [pc EXCEPT ![s] = "io"]
                /\ UNCHANGED <<header_, buffer_, inq, pend>>

\* Abnormal termination of the process: every session goes with it.  An
\* exception leaving a handler leaves io_service.run() and is caught in main
\* (lines 242-245); a signal for an access outside a vector kills the process.
Crash ==
    /\ crashed' = TRUE
    /\ \E how \in {"exception", "signal"} :
          proc' = IF how = "exception"
                  THEN Exited(ExitAfterCatch, "Exception", "handler")
                  ELSE Killed
    /\ pc' = [s \in Sessions |-> "closed"]
    /\ pending' = [s \in Sessions |-> {}]
    /\ header_' = [s \in Sessions |-> <<>>]
    /\ buffer_' = [s \in Sessions |-> <<>>]
    /\ inq' = [s \in Sessions |-> <<>>]
    /\ pend' = [s \in Sessions |-> <<>>]
    /\ g_cacheMutex' = {}
    /\ listening' = FALSE
    /\ UNCHANGED <<g_itemCache, key_, tempValue, outq, cur, seen, lastSet, dirty,
                   nsent, menu>>

\* (variant) the next header read is started together with the write
async_write_and_read == {"write", "read_header"}

\* The operations each function of the session starts.
\* lines 80: do_read_header
do_read_header == {"read_header"}
\* line 96: do_read_body
do_read_body == {"read_body"}
\* line 175: send_response
async_write == {"write"}

\* ---------------------------------------------------------------- the peer
\* A client writes one more frame to its connection.  The session looks at
\* inq only when a read completes, so a frame sent while a request is being
\* served is the same to it as one sent before that request's header read
\* completed: frames are sent while the session waits for a header, and
\* several of them may be sent before it reads the first (pipelining).
ClientSend(s, f) ==
    /\ pc[s] = "io"
    /\ "read_header" \in pending[s]
    /\ TotalSent < MaxFrames
    /\ inq' = [inq EXCEPT ![s] = @ \o f.bytes]
    /\ pend' = [pend EXCEPT ![s] = Append(@, Intent(f, nsent[s] + 1, Len(pend[s])))]
    /\ nsent' = [nsent EXCEPT ![s] = @ + 1]
    /\ UNCHANGED <<g_itemCache, g_cacheMutex, listening, crashed, pc, pending,
                   header_, buffer_, key_, tempValue, outq, cur, seen, lastSet,
                   dirty, menu, proc>>

\* ---------------------------------------------------------------- server
\* (variant) the next accept is started only after a successful one
accept_again_on_success(ec) == ~ec

\* line 218: do_accept() is called whatever ec is
accept_again(ec) == TRUE

\* lines 226-248: main.  A wrong argument count prints the usage and returns
\* 1.  The server's constructor opens, binds and listens (the acceptor's
\* constructor throws when it cannot) and calls do_accept; an exception is
\* caught, printed to cerr, and main goes on to its final return 0.
main(argc, bound) ==
    /\ proc.state = "start"
    /\ IF argc # ArgCount
       THEN /\ proc' = Exited(ExitUsage, "Usage", "usage")
            /\ UNCHANGED listening
       ELSE IF bound
            THEN /\ proc' = [proc EXCEPT !.state = "running"]
                 /\ listening' = TRUE
            ELSE /\ proc' = Exited(ExitAfterCatch, "Exception", "bind")
                 /\ UNCHANGED listening
    /\ UNCHANGED <<g_itemCache, g_cacheMutex, crashed, pc, pending, header_,
                   buffer_, key_, tempValue, inq, outq, pend, cur, seen, lastSet,
                   dirty, nsent, menu>>

\* lines 208-220: the accept handler for connection attempt s.  On success a
\* session is made for the connection and started (start calls
\* do_read_header); on failure there is no session ("failed"); either way
\* do_accept is called again.
do_accept(s, ec) ==
    /\ listening
    /\ pc[s] = "none"
    /\ \A t \in Sessions : t < s => pc[t] # "none"
    /\ pc' = [pc EXCEPT ![s] = IF ec THEN "failed" ELSE "io"]
    /\ pending' = [pending EXCEPT ![s] = IF ec THEN {} ELSE do_read_header]
    /\ listening' = accept_again(ec)
    /\ UNCHANGED <<g_itemCache, g_cacheMutex, crashed, header_, buffer_, key_,
                   tempValue, inq, outq, pend, cur, seen, lastSet, dirty, nsent,
                   menu, proc>>

\* lines 80-88 and 91-96: the header read completes; an accepted header goes
\* on to do_read_body, which sizes buffer_ and starts the body read.
\* &(buffer_[0]) on an empty vector (a body size of 0) is outside the vector.
read_header_handler(s, ec) ==
    /\ pc[s] = "io"
    /\ "read_header" \in pending[s]
    /\ IF ec
       THEN /\ Return(s, "read_header", {})
            /\ UNCHANGED <<g_itemCache, g_cacheMutex, listening, crashed, key_,
                           tempValue, outq, cur, seen, lastSet, dirty, nsent, menu, proc>>
       ELSE /\ Len(inq[s]) >= header_length
            /\ LET h == SubSeq(inq[s], 1, header_length)
                   rest == SubSeq(inq[s], header_length + 1, Len(inq[s]))
               IN  \/ /\ cur' = [cur EXCEPT ![s] = Head(pend[s])]
                      /\ seen' = [seen EXCEPT ![s] = NoSeen]
                      /\ IF HeaderAccepted(h)
                         THEN /\ header_' = [header_ EXCEPT ![s] = h]
                              /\ buffer_' = [buffer_ EXCEPT ![s] = Resize(@, BodySize(h))]
                              /\ pending' = [pending EXCEPT ![s] =
                                               (@ \ {"read_header"}) \cup do_read_body]
                              /\ inq' = [inq EXCEPT ![s] = rest]
                              /\ pend' = [pend EXCEPT ![s] = Tail(@)]
                              /\ UNCHANGED pc
                         ELSE Return(s, "read_header", {})
                      /\ UNCHANGED <<g_itemCache, g_cacheMutex, listening, crashed,
                                     key_, tempValue, outq, lastSet, dirty, nsent,
                                     menu, proc>>
                   \/ /\ HeaderAccepted(h)
                      /\ BodySize(h) = 0
                      /\ Crash

\* lines 97-106: the body read completes; dispatch on the opcode (neither
\* get nor set: nothing is started).  A read of zero bytes completes at once
\* and cannot fail.
read_body_handler(s, ec) ==
    /\ pc[s] = "io"
    /\ "read_body" \in pending[s]
    /\ LET bodySize == BodySize(header_[s])
       IN  IF ec
           THEN /\ bodySize > 0
                /\ Return(s, "read_body", {})
           ELSE /\ Len(inq[s]) >= bodySize
                /\ IF header_[s][2] = OpGet \/ header_[s][2] = OpSet
                   THEN /\ buffer_' = [buffer_ EXCEPT ![s] = SubSeq(inq[s], 1, bodySize)]
                        /\ inq' = [inq EXCEPT ![s] = SubSeq(@, bodySize + 1, Len(@))]
                        /\ pending' = [pending EXCEPT ![s] = @ \ {"read_body"}]
                        /\ pc' = [pc EXCEPT ![s] =
                                    IF header_[s][2] = OpGet THEN "do_get" ELSE "do_set"]
                        /\ UNCHANGED <<header_, pend>>
                   ELSE Return(s, "read_body", {})
    /\ UNCHANGED <<g_itemCache, g_cacheMutex, listening, crashed, key_, tempValue,
                   outq, cur, seen, lastSet, dirty, nsent, menu, proc>>

\* line 114: do_get enters its lock_guard scope
do_get_lock(s) ==
    /\ pc[s] = "do_get"
    /\ CanLock(s)
    /\ g_cacheMutex' = g_cacheMutex \cup {s}
    /\ pc' = [pc EXCEPT ![s] = "get_locked"]
    /\ UNCHANGED <<g_itemCache, listening, crashed, pending, header_, buffer_, key_,
                   tempValue, inq, outq, pend, cur, seen, lastSet, dirty, nsent,
                   menu, proc>>

\* lines 116-126 and 153-175: the lookup under the lock, the copy into
\* buffer_, the unlock, and send_response up to the start of the write.
\* A key that extends past the end of buffer_ is read from outside the vector;
\* a copy of an entry another thread is assigning is a data race.
do_get(s) ==
    /\ pc[s] = "get_locked"
    /\ LET extra == ExtraLength(header_[s])
           keySize == KeySize(header_[s])
       IN  \/ \E key \in Reads(buffer_[s], extra, keySize) :
                LET writers == {t \in Sessions \ {s} :
                                    pc[t] = "set_assign" /\ key_[t] = key}
                    found == IF writers = {}
                             THEN {Lookup(g_itemCache, key)}
                             ELSE UNION {Torn(Lookup(g_itemCache, key), tempValue[t]) :
                                            t \in writers}
                IN  \E result \in found :
                      /\ buffer_' = [buffer_ EXCEPT ![s] =
                                        send_response(result, GetStatus(result))]
                      /\ seen' = [seen EXCEPT ![s] =
                                    [inStore |-> cur[s].key \in DOMAIN g_itemCache,
                                     stored |-> IF cur[s].key \in DOMAIN g_itemCache
                                                THEN g_itemCache[cur[s].key]
                                                ELSE <<>>,
                                     last |-> LastOf(cur[s].key),
                                     clean |-> cur[s].key \notin dirty[s]]]
                      /\ g_itemCache' = FindEntry(g_itemCache, key)
                      /\ g_cacheMutex' = Unlock(s)
                      /\ pending' = [pending EXCEPT ![s] = @ \cup async_write]
                      /\ pc' = [pc EXCEPT ![s] = "io"]
                      /\ UNCHANGED <<listening, crashed, header_, key_,
                                     tempValue, inq, outq, pend, cur, lastSet, dirty,
                                     nsent, menu, proc>>
           \/ /\ extra + keySize > Len(buffer_[s])
              /\ Crash

\* line 132: do_set enters its lock_guard scope
do_set_lock(s) ==
    /\ pc[s] = "do_set"
    /\ CanLock(s)
    /\ g_cacheMutex' = g_cacheMutex \cup {s}
    /\ pc' = [pc EXCEPT ![s] = "set_locked"]
    /\ UNCHANGED <<g_itemCache, listening, crashed, pending, header_, buffer_, key_,
                   tempValue, inq, outq, pend, cur, seen, lastSet, dirty, nsent,
                   menu, proc>>

\* lines 134-141, up to operator[]: the key, tempValue = the first 4 bytes
\* of buffer_ followed by [valStart, cend), and the entry of the key.
\* A buffer_ shorter than 4 bytes or than extras + key length is read
\* outside the vector, and valStart past cend is not a valid range.
do_set_index(s) ==
    /\ pc[s] = "set_locked"
    /\ LET extra == ExtraLength(header_[s])
           keySize == KeySize(header_[s])
           size == Len(buffer_[s])
           val == IF extra + keySize <= size
                  THEN SubSeq(buffer_[s], extra + keySize + 1, size)
                  ELSE <<>>
       IN  \/ \E key \in Reads(buffer_[s], extra, keySize),
                 flags \in Reads(buffer_[s], 0, FlagsLength) :
                /\ key_' = [key_ EXCEPT ![s] = key]
                /\ tempValue' = [tempValue EXCEPT ![s] = StoredValue(flags, val)]
                /\ g_itemCache' = IndexEntry(g_itemCache, key)
                /\ pc' = [pc EXCEPT ![s] = "set_assign"]
                /\ UNCHANGED <<g_cacheMutex, listening, crashed, pending, header_,
                               buffer_, inq, outq, pend, cur, seen, lastSet, dirty,
                               nsent, menu, proc>>
           \/ /\ (size < FlagsLength \/ extra + keySize > size)
              /\ Crash

\* lines 141-145 and 153-175: the move assignment into the entry, the
\* unlock, buffer_.clear(), and send_response(0) up to the start of the write.
\* An assignment to an entry another thread is assigning is a data race.
do_set(s) ==
    /\ pc[s] = "set_assign"
    /\ LET key == key_[s]
           writers == {t \in Sessions \ {s} : pc[t] = "set_assign" /\ key_[t] = key}
           stored == IF writers = {}
                     THEN {tempValue[s]}
                     ELSE UNION {Torn(tempValue[s], tempValue[t]) : t \in writers}
           wf == cur[s].kind = "SET"
           k == IF wf THEN cur[s].key ELSE key
       IN  /\ \E v \in stored : g_itemCache' = AssignEntry(g_itemCache, key, v)
           /\ lastSet' = (k :> [known |-> wf,
                                flags |-> cur[s].flags,
                                value |-> cur[s].value,
                                by |-> <<s, cur[s].n>>,
                                count |-> LastOf(k).count + 1,
                                raw |-> LastOf(k).raw \/ ~wf,
                                req |-> cur[s]]) @@ lastSet
           /\ dirty' = [t \in Sessions |-> IF t = s THEN {} ELSE dirty[t] \cup {k}]
    /\ g_cacheMutex' = Unlock(s)
    /\ buffer_' = [buffer_ EXCEPT ![s] = send_response(<<>>, NoError)]
    /\ key_' = [key_ EXCEPT ![s] = <<>>]
    /\ tempValue' = [tempValue EXCEPT ![s] = <<>>]
    /\ pending' = [pending EXCEPT ![s] = @ \cup async_write]
    /\ pc' = [pc EXCEPT ![s] = "io"]
    /\ UNCHANGED <<listening, crashed, header_, inq, outq, pend, cur, seen, nsent,
                   menu, proc>>

\* (variant) the response frame refers to the entry of the map
written_from_map(s) ==
    IF header_[s][2] = OpGet /\ buffer_[s][8] = NoError
    THEN send_response(Lookup(g_itemCache, cur[s].key), NoError)
    ELSE buffer_[s]

\* lines 121 and 174-175: what async_write sends is buffer_, which holds its
\* own copy of the value
written(s) == buffer_[s]

\* (variant) nothing is started after a write
after_write_nothing(ec) == {}

\* lines 178-182: what the write handler starts
after_write(ec) == IF ec THEN {} ELSE do_read_header

\* lines 176-183: the write completes; without an error the whole frame
\* has been written and the next header read is started.
write_handler(s, ec) ==
    /\ pc[s] = "io"
    /\ "write" \in pending[s]
    /\ outq' = [outq EXCEPT ![s] =
                  IF ec THEN @
                  ELSE Append(@, [bytes |-> written(s), req |-> cur[s],
                                  seen |-> seen[s]])]
    /\ Return(s, "write", after_write(ec))
    /\ UNCHANGED <<g_itemCache, g_cacheMutex, listening, crashed, key_, tempValue,
                   cur, seen, lastSet, dirty, nsent, menu, proc>>

\* ---------------------------------------------------------------- specification
Next ==
    \/ \E argc \in ArgCounts, bound \in BOOLEAN : main(argc, bound)
    \/ \E s \in Sessions, f \in menu : ClientSend(s, f)
    \/ \E s \in Sessions, ec \in BOOLEAN : do_accept(s, ec)
    \/ \E s \in Sessions, ec \in BOOLEAN : read_header_handler(s, ec)
    \/ \E s \in Sessions, ec \in BOOLEAN : read_body_handler(s, ec)
    \/ \E s \in Sessions : do_get_lock(s)
    \/ \E s \in Sessions : do_get(s)
    \/ \E s \in Sessions : do_set_lock(s)
    \/ \E s \in Sessions : do_set_index(s)
    \/ \E s \in Sessions : do_set(s)
    \/ \E s \in Sessions, ec \in BOOLEAN : write_handler(s, ec)

Spec == Init /\ [][Next]_vars

\* The same program with clients that also send SETs whose extras length is
\* not 4 and requests with an empty body.
InitOdd == Start(OddMenu)
SpecOdd == InitOdd /\ [][Next]_vars

\* The same program with clients that also send a SET with an empty body.
InitShort == Start(ShortMenu)
SpecShort == InitShort /\ [][Next]_vars


\* ---------------------------------------------------------------- reading a response
\* A written frame as its receiver parses it.
RespStatus(b) == b[7] * 256 + b[8]
RespBodyLength(b) == b[9] * 16777216 + b[10] * 65536 + b[11] * 256 + b[12]
RespBody(b) == SubSeq(b, header_length + 1, Len(b))

Entries(s) == {outq[s][i] : i \in 1..Len(outq[s])}
Responses == UNION {Entries(s) : s \in Sessions}

\* Every request a client has sent that the server has taken or may take.
AllIntents ==
    UNION {{cur[s]} \cup {pend[s][i] : i \in 1..Len(pend[s])}
             \cup {e.req : e \in Entries(s)} : s \in Sessions}
\* The complete stored bytes of the SETs sent for key K.
SentValues(K) ==
    {i.flags \o i.value : i \in {j \in AllIntents : j.kind = "SET" /\ j.key = K}}

BadKinds == {"BADMAGIC", "BADOPCODE"}
TruncKinds == {"TRUNCGET", "TRUNCSET"}

\* ---------------------------------------------------------------- claims
\* C1: round trip.  A GET(K) whose lookup comes after SET(K,F,V) was
\* processed, with no other SET to K processed in between, is answered on
\* whichever connection with status NoError and body F ++ V.
C1_RoundTrip ==
    \A e \in Responses :
        (e.req.kind = "GET" /\ e.seen.last.known)
            => /\ RespStatus(e.bytes) = NoError
               /\ RespBody(e.bytes) = e.seen.last.flags \o e.seen.last.value

\* A GET answered on another connection than the SET's, for an empty value.
C1_Witness ==
    \E s \in Sessions : \E e \in Entries(s) :
        /\ e.req.kind = "GET"
        /\ e.seen.last.known
        /\ e.seen.last.by[1] # s
        /\ e.seen.last.value = <<>>
        /\ RespBody(e.bytes) = F1

\* C2: miss.  A GET(K) for a key that is not in the Store at its lookup is
\* answered with status KeyNotFound (1) and the 9 bytes "Not found" after
\* the header.
C2_Miss ==
    \A e \in Responses :
        (e.req.kind = "GET" /\ ~e.seen.inStore)
            => /\ RespStatus(e.bytes) = KeyNotFound
               /\ RespBody(e.bytes) = NotFoundText
               /\ Len(e.bytes) = header_length + 9

\* A miss answered while the Store holds another key.
C2_Witness ==
    \E e \in Responses :
        /\ e.req.kind = "GET"
        /\ ~e.seen.inStore
        /\ DOMAIN g_itemCache # {}
        /\ RespStatus(e.bytes) = KeyNotFound

\* C3: response framing.  In every frame the server writes, the total body
\* length of header bytes 8..11 is the number of bytes that follow the
\* 24-byte header.
C3_Framing ==
    \A e \in Responses : RespBodyLength(e.bytes) = Len(e.bytes) - header_length

\* C4: overwrite.  Once a key has had more than one SET, the Store holds for
\* it exactly the flags ++ value of the SET processed last, and a GET of
\* it returns exactly those bytes.
C4_Overwrite ==
    /\ \A K \in DOMAIN lastSet :
         (lastSet[K].known /\ lastSet[K].count >= 2)
            => /\ K \in DOMAIN g_itemCache
               /\ g_itemCache[K] = lastSet[K].flags \o lastSet[K].value
    /\ \A e \in Responses :
         (e.req.kind = "GET" /\ e.seen.last.known /\ e.seen.last.count >= 2)
            => RespBody(e.bytes) = e.seen.last.flags \o e.seen.last.value

\* SET(K1,F2,V2), SET(K1,F1,V1), GET(K1) on one connection: the GET is
\* answered with F1 ++ V1.
C4_Witness ==
    \E s \in Sessions :
        /\ Len(outq[s]) = 3
        /\ outq[s][1].req.kind = "SET" /\ outq[s][1].req.key = K1
        /\ outq[s][1].req.flags = F2 /\ outq[s][1].req.value = V2
        /\ outq[s][2].req.kind = "SET" /\ outq[s][2].req.key = K1
        /\ outq[s][2].req.flags = F1 /\ outq[s][2].req.value = V1
        /\ outq[s][3].req.kind = "GET" /\ outq[s][3].req.key = K1
        /\ outq[s][3].seen.last.count = 2
        /\ RespBody(outq[s][3].bytes) = F1 \o V1

\* C5: malformed frame.  A session whose last header had a magic byte other
\* than 0x80 or an opcode other than 0/1 is closed with nothing
\* outstanding: no response was written for that frame, no body was read, the
\* Store was not accessed for it, and nothing sent after it is processed.
C5_Malformed ==
    \A s \in Sessions :
        cur[s].kind \in BadKinds
            => /\ pc[s] = "closed"
               /\ pending[s] = {}
               /\ Len(outq[s]) = cur[s].n - 1
               /\ buffer_[s] = <<>>
               /\ inq[s] = <<>>
               /\ s \notin g_cacheMutex
               /\ \A k \in DOMAIN lastSet : lastSet[k].by # <<s, cur[s].n>>

\* A bad opcode as the second of three pipelined frames: the first is
\* answered, the third is never served.
C5_Witness ==
    \E s \in Sessions :
        /\ cur[s].kind = "BADOPCODE"
        /\ cur[s].n = 2
        /\ nsent[s] = 3
        /\ Len(outq[s]) = 1
        /\ pc[s] = "closed"

\* C6: truncated frame.  No response frame is ever written for a GET or SET
\* whose body is shorter than extras length + key length, and such a frame
\* never changes the Store.
C6_TruncatedSilent ==
    /\ \A e \in Responses : e.req.kind \notin TruncKinds
    /\ \A k \in DOMAIN lastSet : ~lastSet[k].raw

\* C7: pipelining order.  The responses of a connection are written in
\* request order, and a GET(K) sent right behind a SET(K,F,V) of the same
\* connection, with no other connection writing K between that SET's store
\* update and the GET's lookup, is answered with NoError and F ++ V.
C7_Pipelining ==
    \A s \in Sessions :
        /\ \A i \in 1..Len(outq[s]) : outq[s][i].req.n = i
        /\ \A i \in 1..(Len(outq[s]) - 1) :
             LET a == outq[s][i]
                 b == outq[s][i + 1]
             IN  (/\ a.req.kind = "SET"
                  /\ b.req.kind = "GET"
                  /\ b.req.key = a.req.key
                  /\ b.req.behind >= 1
                  /\ b.seen.clean)
                    => /\ RespStatus(b.bytes) = NoError
                       /\ RespBody(b.bytes) = a.req.flags \o a.req.value

\* A pipelined SET, GET pair served while the key held an earlier, different
\* value set by another connection.
C7_Witness ==
    \E s \in Sessions : \E i \in 1..(Len(outq[s]) - 1) :
        /\ outq[s][i].req.kind = "SET"
        /\ outq[s][i + 1].req.kind = "GET"
        /\ outq[s][i + 1].req.key = outq[s][i].req.key
        /\ outq[s][i + 1].req.behind >= 1
        /\ outq[s][i + 1].seen.clean
        /\ outq[s][i + 1].seen.last.count = 2
        /\ outq[s][i + 1].seen.last.by = <<s, i>>

\* C8: one in flight.  A session never has two network operations
\* outstanding, has none outstanding while it dispatches, and has a header
\* read outstanding only when the response of every request it has taken has
\* been written in full.
C8_OneInFlight ==
    \A s \in Sessions :
        /\ Cardinality(pending[s]) <= 1
        /\ (pc[s] # "io" => pending[s] = {})
        /\ ("read_header" \in pending[s] => Len(outq[s]) = cur[s].n)

\* The header read for request 3 is outstanding, request 3 was sent behind
\* request 2, and two responses have been written.
C8_Witness ==
    \E s \in Sessions :
        /\ pending[s] = {"read_header"}
        /\ Len(outq[s]) = 2
        /\ Len(pend[s]) = 1
        /\ pend[s][1].behind >= 1

\* C9: atomic store access.  For a key only well-formed SETs have written,
\* the Store of the running server holds the complete flags ++ value of one of the SETs sent for
\* it (or the empty entry of a SET that holds the lock and has not assigned
\* yet), and a GET of it is answered with a miss or with the complete
\* flags ++ value of one of those SETs.
C9_Atomic ==
    /\ \A K \in DOMAIN g_itemCache :
         (~crashed /\ ~LastOf(K).raw)
            => g_itemCache[K] \in
                 SentValues(K) \cup
                   (IF \E s \in Sessions : pc[s] = "set_assign" /\ key_[s] = K
                    THEN {<<>>} ELSE {})
    /\ \A e \in Responses :
         (e.req.kind = "GET" /\ ~e.seen.last.raw)
            => \/ /\ RespStatus(e.bytes) = KeyNotFound
                  /\ RespBody(e.bytes) = NotFoundText
               \/ /\ RespStatus(e.bytes) = NoError
                  /\ RespBody(e.bytes) \in SentValues(e.req.key)

\* A GET(K1) waits for the lock while a SET of another connection, holding
\* it, is about to overwrite K1's value with a different one.
C9_Witness ==
    \E s, t \in Sessions :
        /\ s # t
        /\ pc[s] = "do_get" /\ cur[s].kind = "GET" /\ cur[s].key = K1
        /\ pc[t] = "set_assign" /\ key_[t] = K1 /\ cur[t].kind = "SET"
        /\ g_itemCache[K1] # <<>>
        /\ g_itemCache[K1] # tempValue[t]

\* C10: no lost updates across keys.  A key that has had exactly one SET,
\* answered, holds that SET's flags ++ value whatever was set to other keys
\* before or after; and a step of a SET leaves the entry of every key other
\* than its own in the Store and unchanged.
C10_Retrievable ==
    \A e \in Responses :
        (e.req.kind = "SET" /\ LastOf(e.req.key).count = 1 /\ ~LastOf(e.req.key).raw)
            => /\ e.req.key \in DOMAIN g_itemCache
               /\ g_itemCache[e.req.key] = e.req.flags \o e.req.value
C10_OtherKeysKept ==
    \A s \in Sessions :
        (pc[s] \in {"set_locked", "set_assign"} /\ pc'[s] # pc[s] /\ ~crashed')
            => LET own == IF pc[s] = "set_locked" THEN key_'[s] ELSE key_[s]
               IN  \A K \in DOMAIN g_itemCache \ {own} :
                      K \in DOMAIN g_itemCache' /\ g_itemCache'[K] = g_itemCache[K]
\* C10: no lost updates across keys: the invariant and the step property
\* above, together.
C10_NoLostUpdates == [](C10_Retrievable) /\ [][C10_OtherKeysKept]_vars

\* SET(K1) on one connection, then SET(K2) and GET(K1) on another: the GET
\* is answered with K1's own value after K2 was set.
C10_Witness ==
    \E s, t \in Sessions :
        /\ s # t
        /\ Len(outq[s]) >= 1 /\ Len(outq[t]) = 2
        /\ outq[s][1].req.kind = "SET" /\ outq[s][1].req.key = K1
        /\ outq[t][1].req.kind = "SET" /\ outq[t][1].req.key = K2
        /\ outq[t][2].req.kind = "GET" /\ outq[t][2].req.key = K1
        /\ outq[t][2].seen.last.by = <<s, 1>>
        /\ RespBody(outq[t][2].bytes) = outq[s][1].req.flags \o outq[s][1].req.value
        /\ DOMAIN g_itemCache = {K1, K2}

\* C11: error isolation.  When a session ends because a read failed, a
\* write failed or its header was rejected (the process itself keeps
\* running), that step leaves the Store, the mutex, the listener and every
\* field of every other session as they were; and a session that has ended
\* holds no lock, so the others go on being served.
C11_Ends(s) ==
    pc[s] \notin {"none", "failed", "closed"} /\ pc'[s] = "closed" /\ ~crashed'
C11_OthersKept(s) ==
    /\ g_itemCache' = g_itemCache
    /\ g_cacheMutex' = g_cacheMutex
    /\ listening' = listening
    /\ \A t \in Sessions \ {s} :
         /\ pc'[t] = pc[t]
         /\ pending'[t] = pending[t]
         /\ header_'[t] = header_[t]
         /\ buffer_'[t] = buffer_[t]
         /\ key_'[t] = key_[t]
         /\ tempValue'[t] = tempValue[t]
         /\ inq'[t] = inq[t]
         /\ outq'[t] = outq[t]
C11_ErrorIsolation ==
    /\ [](\A s \in Sessions : pc[s] = "closed" => s \notin g_cacheMutex)
    /\ [][\A s \in Sessions : C11_Ends(s) => C11_OthersKept(s)]_vars

\* One session has ended on a rejected header; the other has since been
\* answered, waits for its next header, and the Store holds an entry.
C11_Witness ==
    \E s, t \in Sessions :
        /\ s # t
        /\ ~crashed
        /\ pc[s] = "closed"
        /\ cur[s].kind \in BadKinds
        /\ Len(outq[t]) >= 1
        /\ outq[t][Len(outq[t])].req.kind = "GET"
        /\ outq[t][Len(outq[t])].seen.inStore
        /\ "read_header" \in pending[t]
        /\ DOMAIN g_itemCache # {}

\* C12: response header encoding.  Every frame written has magic 0x81 and
\* opcode 0; its status (bytes 6-7) is 0 for a SET and for a GET that found
\* its key, 1 for a GET that did not; its extras length (byte 4) is 4
\* exactly when the status is 0 and a body follows, and 0 otherwise.
C12_ResponseHeader ==
    \A e \in Responses :
        LET b == e.bytes
        IN  /\ b[1] = ResponseMagic
            /\ b[2] = 0
            /\ e.req.kind = "SET" => (RespStatus(b) = NoError /\ b[5] = 0)
            /\ (e.req.kind = "GET" /\ e.seen.inStore)
                  => (RespStatus(b) = NoError /\ b[5] = 4)
            /\ (e.req.kind = "GET" /\ ~e.seen.inStore)
                  => (RespStatus(b) = KeyNotFound /\ b[5] = 0)
            /\ b[5] = (IF RespStatus(b) = NoError /\ Len(RespBody(b)) > 0
                       THEN 4 ELSE 0)

\* A SET, a GET that found its key and a GET that did not have all been
\* answered.
C12_Witness ==
    \E e, f, g \in Responses :
        /\ e.req.kind = "SET" /\ e.bytes[5] = 0 /\ e.bytes[8] = NoError
        /\ f.req.kind = "GET" /\ f.seen.inStore /\ f.bytes[5] = 4
        /\ g.req.kind = "GET" /\ ~g.seen.inStore /\ g.bytes[8] = KeyNotFound

\* C13: startup error.  When the port cannot be bound, the failure is written
\* to the error stream and the process exits with a non-zero status.
C13_StartupError ==
    (proc.state = "exited" /\ proc.cause = "bind")
        => (proc.err # "" /\ proc.status # 0)

\* C14: request/response progress.  A session with a write outstanding has
\* nothing else outstanding and owes exactly the response to the request it
\* took last; a write that completes without error adds exactly that one
\* frame and leaves the session waiting for a header with a new header read
\* outstanding, a write that fails ends the session with no frame added;
\* and a session waiting for a header has written one frame per request it
\* took.  This includes requests whose total body length is 0.
C14_WriteCompletes(s) ==
    "write" \in pending[s] /\ "write" \notin pending'[s] /\ ~crashed'
C14_Answered(s) ==
    \/ /\ outq'[s] = Append(outq[s], [bytes |-> buffer_[s], req |-> cur[s],
                                        seen |-> seen[s]])
       /\ pc'[s] = "io"
       /\ pending'[s] = {"read_header"}
    \/ /\ outq'[s] = outq[s]
       /\ pc'[s] = "closed"
       /\ pending'[s] = {}
C14_Owed ==
    \A s \in Sessions :
        /\ "write" \in pending[s]
             => (pending[s] = {"write"} /\ Len(outq[s]) + 1 = cur[s].n)
        /\ (pc[s] = "io" /\ pending[s] = {"read_header"})
             => Len(outq[s]) = cur[s].n
C14_Progress ==
    /\ [](C14_Owed)
    /\ [][\A s \in Sessions : C14_WriteCompletes(s) => C14_Answered(s)]_vars

\* A GET with a total body length of 0 has been answered and its session
\* waits for the next header; another session ended when the write of its
\* response to a SET whose extras length is not 4 failed or its body read
\* failed.
C14_Witness ==
    \E s, t \in Sessions :
        /\ s # t
        /\ ~crashed
        /\ Len(outq[s]) = 1
        /\ outq[s][1].req.kind = "GET"
        /\ outq[s][1].req.body = <<>>
        /\ pc[s] = "io"
        /\ pending[s] = {"read_header"}
        /\ pc[t] = "closed"
        /\ cur[t].kind = "ODDSET"
        /\ Len(outq[t]) + 1 = cur[t].n

\* C15: lock discipline.  At most one session is inside a lock scope; a
\* session inside one is at the lookup or the update of the map and has no
\* network read or write outstanding.
C15_LockDiscipline ==
    /\ Cardinality(g_cacheMutex) <= 1
    /\ \A s \in Sessions :
         s \in g_cacheMutex
            => /\ pc[s] \in {"get_locked", "set_locked", "set_assign"}
               /\ pending[s] = {}

\* One session holds the lock in the middle of a SET while another has the
\* write of its response outstanding.
C15_Witness ==
    \E s, t \in Sessions :
        /\ s # t
        /\ "write" \in pending[s]
        /\ t \in g_cacheMutex
        /\ pc[t] = "set_assign"

\* C16: snapshot read.  The body of the response to a GET whose key was in
\* the Store is the value the Store held for the key at the GET's lookup,
\* both while the write of the response is outstanding and once it has been
\* written, whatever has been stored for the key since.
C16_Snapshot ==
    /\ \A e \in Responses :
         (e.req.kind = "GET" /\ e.seen.inStore)
            => RespBody(e.bytes) = e.seen.stored
    /\ \A s \in Sessions :
         ("write" \in pending[s] /\ cur[s].kind = "GET" /\ seen[s].inStore)
            => RespBody(buffer_[s]) = seen[s].stored

\* The write of a GET's response is outstanding and another connection has
\* already stored something else for its key.
C16_Witness ==
    \E s \in Sessions :
        /\ "write" \in pending[s]
        /\ cur[s].kind = "GET"
        /\ seen[s].inStore
        /\ cur[s].key \in DOMAIN g_itemCache
        /\ g_itemCache[cur[s].key] # seen[s].stored
        /\ g_itemCache[cur[s].key] # <<>>
        /\ LastOf(cur[s].key).by[1] # s
        /\ RespBody(buffer_[s]) = seen[s].stored

\* C17: fixed-offset SET decoding.  For a SET with extras length E and key
\* length L whose body holds at least 4 and at least E + L bytes, whatever E
\* is, the key stored under is body[E..E+L) and the value stored is
\* body[0..4) followed by body[E+L..end).
C17_Decoding ==
    \A K \in DOMAIN lastSet :
        LET r == lastSet[K].req
            E == r.extras
            L == r.keylen
            body == r.body
        IN  (r.kind \in {"SET", "ODDSET"} /\ Len(body) >= 4 /\ Len(body) >= E + L)
                => /\ K = SubSeq(body, E + 1, E + L)
                   /\ K \in DOMAIN g_itemCache
                   /\ g_itemCache[K] = SubSeq(body, 1, 4)
                                          \o SubSeq(body, E + L + 1, Len(body))

\* A SET with extras length 0 and body K1 ++ <<9,8,7,6>> and a SET with
\* extras length 8 and body F1 ++ F2 ++ K2 ++ V2 have both been stored.
C17_Witness ==
    /\ K1 \in DOMAIN lastSet
    /\ lastSet[K1].req.extras = 0
    /\ g_itemCache[K1] = <<107, 9, 8, 7, 9, 8, 7, 6>>
    /\ K2 \in DOMAIN lastSet
    /\ lastSet[K2].req.extras = 8
    /\ g_itemCache[K2] = F1 \o V2

\* C18: StoredValue shape.  Every value in the Store (but for an entry a SET
\* is in the middle of assigning) is at least 4 bytes long and begins with
\* the 4-byte flags prefix of the SET that stored it, the first 4 bytes of
\* that SET's body, also after SETs whose body is shorter than 4 bytes.
C18_StoredShape ==
    \A K \in DOMAIN g_itemCache :
        (~\E s \in Sessions : pc[s] = "set_assign" /\ key_[s] = K)
            => /\ Len(g_itemCache[K]) >= FlagsLength
               /\ K \in DOMAIN lastSet
               /\ Len(lastSet[K].req.body) >= FlagsLength
               /\ SubSeq(g_itemCache[K], 1, FlagsLength)
                     = SubSeq(lastSet[K].req.body, 1, FlagsLength)

\* C19: listener re-arming.  While the process runs an accept is always
\* outstanding: each accept completion, with a new session or with an
\* error, starts the next accept, and no session's end stops the listener.
C19_AcceptCompletes(s) == pc[s] = "none" /\ pc'[s] \in {"io", "failed"}
C20_SetStep(s) ==
    /\ pc[s] \in {"set_locked", "set_assign"}
    /\ pc'[s] # pc[s]
    /\ header_[s][2] = OpSet
C20_GetStep(s) == pc[s] = "get_locked" /\ pc'[s] # "get_locked"
C20_GetReadOnly ==
    /\ [](~crashed =>
            \A K \in DOMAIN g_itemCache :
                \/ K \in DOMAIN lastSet
                \/ \E s \in Sessions : pc[s] = "set_assign" /\ key_[s] = K)
    /\ [][/\ g_itemCache' # g_itemCache => \E s \in Sessions : C20_SetStep(s)
          /\ \A s \in Sessions : C20_GetStep(s) => g_itemCache' = g_itemCache]_vars

\* A GET of a key that was not in the Store has been answered, the key is
\* still not in the Store, and a GET of a key that was has been answered and
\* the Store still holds what that GET found.
C20_Witness ==
    \E e, f \in Responses :
        /\ e.req.kind = "GET"
        /\ ~e.seen.inStore
        /\ e.req.key \notin DOMAIN g_itemCache
        /\ f.req.kind = "GET"
        /\ f.seen.inStore
        /\ f.req.key \in DOMAIN g_itemCache
        /\ g_itemCache[f.req.key] = f.seen.stored

====
